---- MODULE Spec2Model ----
(***************************************************************************)
(* The skills repository of src/skills/repo.go: registered types, skills   *)
(* (providers), slots (consumers) and the grant relation kept as two       *)
(* mirrored maps, all behind one sync.Mutex.                               *)
(*                                                                         *)
(* Go pointers to Skill and Slot, and Type values, are modelled as integer  *)
(* addresses into fixed object tables; 0 is the nil pointer.  The nested   *)
(* maps skills[snap][name] and slots[snap][name] are modelled as one map   *)
(* over the pair <<snap, name>>: a missing outer key and an empty inner    *)
(* map read the same through every accessor of the package.  The grant     *)
(* maps keep their key sets, because Grant creates inner maps that Revoke  *)
(* and the Remove calls never delete.                                      *)
(*                                                                         *)
(* Spec runs the methods one whole call after another over the full set   *)
(* of inputs.  SpecConc runs NumCallers goroutines step by step (Lock,     *)
(* checks, writes, deferred Unlock) over a smaller set of inputs.          *)
(***************************************************************************)
EXTENDS Integers, FiniteSets, Sequences, TLC

\* Number of goroutines calling the repository in the concurrent specification.
NumCallers == 2

Callers == 1..NumCallers

OK == "ok"

----------------------------------------------------------------------------
(* Strings the callers use, and Go's byte-wise order on them. *)

BadName == "-"
SnapNames == {"a", "b", BadName}
EndpointNames == {"x", "y", BadName}
TypeNames == {"t1", "t2", BadName}
ValidNames == {"a", "b", "x", "y", "t1", "t2"}

Rank(s) ==
    CASE s = "-" -> 0
      [] s = "a" -> 1
      [] s = "b" -> 2
      [] s = "t1" -> 3
      [] s = "t2" -> 4
      [] s = "x" -> 5
      [] s = "y" -> 6

\* Go's < on strings
StrLess(s, t) == Rank(s) < Rank(t)

Keys == SnapNames \X EndpointNames
NoKey == <<BadName, BadName>>

----------------------------------------------------------------------------
(* The objects callers pass in: Type values, Skill and Slot pointers. *)

TypeIds == 1..4
TypeObj ==
    [i \in TypeIds |->
        CASE i = 1 -> [Name |-> "t1", Strict |-> FALSE]
          [] i = 2 -> [Name |-> "t1", Strict |-> TRUE]
          [] i = 3 -> [Name |-> "t2", Strict |-> FALSE]
          [] i = 4 -> [Name |-> BadName, Strict |-> FALSE]]

SkillIds == 1..6
SkillObj ==
    [i \in SkillIds |->
        CASE i = 1 -> [Snap |-> "a", Name |-> "y", Type |-> "t1", Attrs |-> "ok"]
          [] i = 2 -> [Snap |-> "b", Name |-> "x", Type |-> "t1", Attrs |-> "ok"]
          [] i = 3 -> [Snap |-> "a", Name |-> "y", Type |-> "t1", Attrs |-> "bad"]
          [] i = 4 -> [Snap |-> BadName, Name |-> BadName, Type |-> BadName, Attrs |-> "ok"]
          [] i = 5 -> [Snap |-> "a", Name |-> BadName, Type |-> BadName, Attrs |-> "ok"]
          [] i = 6 -> [Snap |-> "a", Name |-> "x", Type |-> BadName, Attrs |-> "ok"]]

SlotIds == 1..5
SlotObj ==
    [i \in SlotIds |->
        CASE i = 1 -> [Snap |-> "a", Name |-> "y", Type |-> "t1"]
          [] i = 2 -> [Snap |-> "b", Name |-> "x", Type |-> "t1"]
          [] i = 3 -> [Snap |-> "b", Name |-> "x", Type |-> "t2"]
          [] i = 4 -> [Snap |-> BadName, Name |-> "x", Type |-> "t2"]
          [] i = 5 -> [Snap |-> "a", Name |-> BadName, Type |-> "t1"]]

SkillKey(s) == <<SkillObj[s].Snap, SkillObj[s].Name>>
SlotKey(s) == <<SlotObj[s].Snap, SlotObj[s].Name>>

----------------------------------------------------------------------------
(* External collaborators: the identifier checks and a type's Sanitize. *)

\* skills.ValidateName
ValidateName(name) == IF name \in ValidNames THEN OK ELSE "InvalidName"

\* snap.ValidateName
SnapValidateName(name) == IF name \in ValidNames THEN OK ELSE "InvalidOwner"

\* Type.Sanitize(skill): a strict type rejects a skill with bad attributes
Sanitize(t, s) ==
    IF TypeObj[t].Strict /\ SkillObj[s].Attrs = "bad" THEN "TypeRejected" ELSE OK

----------------------------------------------------------------------------
(* The Repository struct and NewRepository. *)

VARIABLES
    r,          \* the Repository's maps
    m,          \* the Repository's mutex: TRUE while locked
    pc,         \* per caller: where it is in its current call
    call,       \* per caller: the call it is making
    loc,        \* per caller: the skill and slot pointers its call looked up
    ret,        \* per caller: the error its call returned
    atLock,     \* history: the maps as the holder of the mutex found them
    race,       \* history: the Grant all callers made at once, since no other call
    duel,       \* history: the callers of a Grant and a removal made at once, since no other call
    last,       \* history: the last completed call and its error
    prev,       \* history: the maps before the last completed call
    added,      \* history: the skill keys AddSkill has stored so far
    readd,      \* history: the last call was an AddSkill of a key in added
    trip,       \* history: a successful Grant and the Revoke right after it
    out,        \* the query a caller made last and the value it returned
    scen        \* history: what the calls so far returned, while they follow Scenario

dataVars == <<r>>
concVars == <<m, pc, call, loc, ret, atLock, race, duel>>
seqVars == <<last, prev, added, readd, trip, out, scen>>
vars == <<r, m, pc, call, loc, ret, atLock, race, duel, last, prev, added, readd, trip, out, scen>>

NewRepository ==
    [types |-> [n \in TypeNames |-> 0],
     skills |-> [k \in Keys |-> 0],
     slots |-> [k \in Keys |-> 0],
     skillUsedBySlot |-> <<>>,
     slotsUsingSkill |-> <<>>]

\* reading a map of maps: a missing key reads as the nil (empty) inner map
Inner(mm, k) == IF k \in DOMAIN mm THEN mm[k] ELSE {}

\* skillUsedBySlot[slot] and slotsUsingSkill[skill] as read by the code
UsedBy(rr, slot) == Inner(rr.skillUsedBySlot, slot)
Using(rr, skill) == Inner(rr.slotsUsingSkill, skill)

\* if mm[k] == nil { mm[k] = make(map) }
MakeInner(mm, k) == IF k \in DOMAIN mm THEN mm ELSE mm @@ (k :> {})

----------------------------------------------------------------------------
(* A call: the operation and its arguments.  obj is the Type, Skill or    *)
(* Slot passed to an Add call, skill and slot are the <<snap, name>> keys  *)
(* passed to the Remove calls, Grant and Revoke.                           *)

Call(op, obj, skill, slot) == [op |-> op, obj |-> obj, skill |-> skill, slot |-> slot]
NoCall == Call("none", 0, NoKey, NoKey)

SkillArgs == {<<"a", "y">>, <<"b", "x">>}
SlotArgs == {<<"a", "y">>, <<"b", "x">>}
SlotRemoveArgs == SlotArgs \cup {<<BadName, "x">>}

Calls ==
    {Call("AddType", t, NoKey, NoKey) : t \in TypeIds}
    \cup {Call("AddSkill", s, NoKey, NoKey) : s \in SkillIds}
    \cup {Call("RemoveSkill", 0, k, NoKey) : k \in SkillArgs}
    \cup {Call("AddSlot", s, NoKey, NoKey) : s \in SlotIds}
    \cup {Call("RemoveSlot", 0, NoKey, k) : k \in SlotRemoveArgs}
    \cup {Call("Grant", 0, k, l) : k \in SkillArgs, l \in SlotArgs}
    \cup {Call("Revoke", 0, k, l) : k \in SkillArgs, l \in SlotArgs}

----------------------------------------------------------------------------
(* AddType *)

\* AddTypeErr without the check that the name is free
AddTypeErrNoConflict(rr, t) == ValidateName(TypeObj[t].Name)

AddTypeErr(rr, t) ==
    LET typeName == TypeObj[t].Name IN
    IF ValidateName(typeName) # OK THEN ValidateName(typeName)
    ELSE IF rr.types[typeName] # 0 THEN "NameConflict"
    ELSE OK

AddTypePut(rr, t) == [rr EXCEPT !.types[TypeObj[t].Name] = t]

(* AddSkill *)

\* AddSkillErr without the check that the name is free
AddSkillErrNoConflict(rr, s) ==
    LET skill == SkillObj[s]
        t == rr.types[skill.Type]
    IN  IF SnapValidateName(skill.Snap) # OK THEN SnapValidateName(skill.Snap)
        ELSE IF ValidateName(skill.Name) # OK THEN ValidateName(skill.Name)
        ELSE IF t = 0 THEN "UnknownType"
        ELSE IF Sanitize(t, s) # OK THEN Sanitize(t, s)
        ELSE OK

\* AddSkillErr looking for the name before it asks the type
AddSkillErrConflictFirst(rr, s) ==
    LET skill == SkillObj[s]
        t == rr.types[skill.Type]
    IN  IF SnapValidateName(skill.Snap) # OK THEN SnapValidateName(skill.Snap)
        ELSE IF ValidateName(skill.Name) # OK THEN ValidateName(skill.Name)
        ELSE IF t = 0 THEN "UnknownType"
        ELSE IF rr.skills[SkillKey(s)] # 0 THEN "NameConflict"
        ELSE IF Sanitize(t, s) # OK THEN Sanitize(t, s)
        ELSE OK

AddSkillErr(rr, s) ==
    LET skill == SkillObj[s]
        t == rr.types[skill.Type]
    IN  IF SnapValidateName(skill.Snap) # OK THEN SnapValidateName(skill.Snap)
        ELSE IF ValidateName(skill.Name) # OK THEN ValidateName(skill.Name)
        ELSE IF t = 0 THEN "UnknownType"
        ELSE IF Sanitize(t, s) # OK THEN Sanitize(t, s)
        ELSE IF rr.skills[SkillKey(s)] # 0 THEN "NameConflict"
        ELSE OK

\* whether the call gets as far as t.Sanitize(skill) on line 136
AddSkillSanitizes(rr, s) ==
    LET skill == SkillObj[s] IN
    /\ SnapValidateName(skill.Snap) = OK
    /\ ValidateName(skill.Name) = OK
    /\ rr.types[skill.Type] # 0

AddSkillPut(rr, s) == [rr EXCEPT !.skills[SkillKey(s)] = s]

(* RemoveSkill *)

\* RemoveSkillErr without the check that no slot uses the skill
RemoveSkillErrUnguarded(rr, k) ==
    LET skill == rr.skills[k] IN
    IF skill = 0 THEN "NotFound" ELSE OK

\* RemoveSkillErr testing that the inner map exists, not that it has entries
RemoveSkillErrByKey(rr, k) ==
    LET skill == rr.skills[k] IN
    IF skill = 0 THEN "NotFound"
    ELSE IF skill \in DOMAIN rr.slotsUsingSkill THEN "InUse"
    ELSE OK

RemoveSkillErr(rr, k) ==
    LET skill == rr.skills[k] IN
    IF skill = 0 THEN "NotFound"
    ELSE IF Cardinality(Using(rr, skill)) > 0 THEN "InUse"
    ELSE OK

\* RemoveSkill without its delete
RemoveSkillPutLost(rr, k) == rr

RemoveSkillPut(rr, k) == [rr EXCEPT !.skills[k] = 0]

(* AddSlot *)

\* AddSlotErr taking a key for used when a skill holds it
AddSlotErrSharedNames(rr, s) ==
    LET slot == SlotObj[s]
        t == rr.types[slot.Type]
    IN  IF ValidateName(slot.Name) # OK THEN ValidateName(slot.Name)
        ELSE IF t = 0 THEN "UnknownType"
        ELSE IF rr.slots[SlotKey(s)] # 0 \/ rr.skills[SlotKey(s)] # 0 THEN "NameConflict"
        ELSE OK

\* AddSlotErr looking up the type before it looks at the name
AddSlotErrTypeFirst(rr, s) ==
    LET slot == SlotObj[s]
        t == rr.types[slot.Type]
    IN  IF t = 0 THEN "UnknownType"
        ELSE IF ValidateName(slot.Name) # OK THEN ValidateName(slot.Name)
        ELSE IF rr.slots[SlotKey(s)] # 0 THEN "NameConflict"
        ELSE OK

\* AddSlotErr without the check that the type is registered
AddSlotErrNoType(rr, s) ==
    LET slot == SlotObj[s] IN
    IF ValidateName(slot.Name) # OK THEN ValidateName(slot.Name)
    ELSE IF rr.slots[SlotKey(s)] # 0 THEN "NameConflict"
    ELSE OK

AddSlotErr(rr, s) ==
    LET slot == SlotObj[s]
        t == rr.types[slot.Type]
    IN  IF ValidateName(slot.Name) # OK THEN ValidateName(slot.Name)
        ELSE IF t = 0 THEN "UnknownType"
        ELSE IF rr.slots[SlotKey(s)] # 0 THEN "NameConflict"
        ELSE OK

AddSlotPut(rr, s) == [rr EXCEPT !.slots[SlotKey(s)] = s]

(* RemoveSlot *)

\* RemoveSlotErr without the check that the slot uses no skill
RemoveSlotErrUnguarded(rr, k) ==
    LET slot == rr.slots[k] IN
    IF slot = 0 THEN "NotFound" ELSE OK

RemoveSlotErr(rr, k) ==
    LET slot == rr.slots[k] IN
    IF slot = 0 THEN "NotFound"
    ELSE IF Cardinality(UsedBy(rr, slot)) > 0 THEN "InUse"
    ELSE OK

RemoveSlotPut(rr, k) == [rr EXCEPT !.slots[k] = 0]

(* Grant *)

\* GrantErr without the check that the pair is not connected yet
GrantErrNoDup(rr, k, l) ==
    LET skill == rr.skills[k]
        slot == rr.slots[l]
    IN  IF skill = 0 THEN "NotFound"
        ELSE IF slot = 0 THEN "NotFound"
        ELSE IF SlotObj[slot].Type # SkillObj[skill].Type THEN "TypeMismatch"
        ELSE OK

\* GrantErr without the check that the types match
GrantErrNoType(rr, k, l) ==
    LET skill == rr.skills[k]
        slot == rr.slots[l]
    IN  IF skill = 0 THEN "NotFound"
        ELSE IF slot = 0 THEN "NotFound"
        ELSE IF skill \in UsedBy(rr, slot) THEN "AlreadyGranted"
        ELSE OK

GrantErr(rr, k, l) ==
    LET skill == rr.skills[k]
        slot == rr.slots[l]
    IN  IF skill = 0 THEN "NotFound"
        ELSE IF slot = 0 THEN "NotFound"
        ELSE IF SlotObj[slot].Type # SkillObj[skill].Type THEN "TypeMismatch"
        ELSE IF skill \in UsedBy(rr, slot) THEN "AlreadyGranted"
        ELSE OK

\* lines 280-286: make both inner maps, then skillUsedBySlot[slot][skill] = true
GrantPutForward(rr, skill, slot) ==
    [rr EXCEPT !.skillUsedBySlot =
                   [MakeInner(rr.skillUsedBySlot, slot) EXCEPT ![slot] = @ \cup {skill}],
               !.slotsUsingSkill = MakeInner(rr.slotsUsingSkill, skill)]

\* Grant without its second write
GrantPutBackwardLost(rr, skill, slot) == rr

\* line 287: slotsUsingSkill[skill][slot] = true
GrantPutBackward(rr, skill, slot) ==
    [rr EXCEPT !.slotsUsingSkill =
                   [MakeInner(rr.slotsUsingSkill, skill) EXCEPT ![skill] = @ \cup {slot}]]

(* Revoke *)

RevokeErr(rr, k, l) ==
    LET skill == rr.skills[k]
        slot == rr.slots[l]
    IN  IF skill = 0 THEN "NotFound"
        ELSE IF slot = 0 THEN "NotFound"
        ELSE IF skill \notin UsedBy(rr, slot) THEN "NotGranted"
        ELSE OK

\* delete(mm[k], v): a no-op on a nil inner map
DeleteInner(mm, k, v) == IF k \in DOMAIN mm THEN [mm EXCEPT ![k] = @ \ {v}] ELSE mm

\* Revoke emptying the slot's inner map instead of deleting one skill
RevokeDelForwardAll(rr, skill, slot) ==
    IF slot \in DOMAIN rr.skillUsedBySlot
    THEN [rr EXCEPT !.skillUsedBySlot[slot] = {}]
    ELSE rr

\* line 311: delete(r.skillUsedBySlot[slot], skill)
RevokeDelForward(rr, skill, slot) ==
    [rr EXCEPT !.skillUsedBySlot = DeleteInner(rr.skillUsedBySlot, slot, skill)]

\* Revoke without its second delete
RevokeDelBackwardLost(rr, skill, slot) == rr

\* line 312: delete(r.slotsUsingSkill[skill], slot)
RevokeDelBackward(rr, skill, slot) ==
    [rr EXCEPT !.slotsUsingSkill = DeleteInner(rr.slotsUsingSkill, skill, slot)]

----------------------------------------------------------------------------
(* A whole call, from Lock to the deferred Unlock: the maps it leaves and *)
(* the error it returns.                                                   *)

Done(rr, e) == [r |-> rr, err |-> e]

RunAddType(rr, t) ==
    LET e == AddTypeErr(rr, t) IN Done(IF e = OK THEN AddTypePut(rr, t) ELSE rr, e)

\* AddSkill storing the skill before it checks that the name is free
RunAddSkillEager(rr, s) ==
    LET e == AddSkillErr(rr, s)
    IN  Done(IF e \in {OK, "NameConflict"} THEN AddSkillPut(rr, s) ELSE rr, e)

RunAddSkill(rr, s) ==
    LET e == AddSkillErr(rr, s) IN Done(IF e = OK THEN AddSkillPut(rr, s) ELSE rr, e)

RunRemoveSkill(rr, k) ==
    LET e == RemoveSkillErr(rr, k) IN Done(IF e = OK THEN RemoveSkillPut(rr, k) ELSE rr, e)

RunAddSlot(rr, s) ==
    LET e == AddSlotErr(rr, s) IN Done(IF e = OK THEN AddSlotPut(rr, s) ELSE rr, e)

RunRemoveSlot(rr, k) ==
    LET e == RemoveSlotErr(rr, k) IN Done(IF e = OK THEN RemoveSlotPut(rr, k) ELSE rr, e)

RunGrant(rr, k, l) ==
    LET e == GrantErr(rr, k, l)
        skill == rr.skills[k]
        slot == rr.slots[l]
    IN  Done(IF e = OK
             THEN GrantPutBackward(GrantPutForward(rr, skill, slot), skill, slot)
             ELSE rr, e)

RunRevoke(rr, k, l) ==
    LET e == RevokeErr(rr, k, l)
        skill == rr.skills[k]
        slot == rr.slots[l]
    IN  Done(IF e = OK
             THEN RevokeDelBackward(RevokeDelForward(rr, skill, slot), skill, slot)
             ELSE rr, e)

Run(rr, c) ==
    CASE c.op = "AddType" -> RunAddType(rr, c.obj)
      [] c.op = "AddSkill" -> RunAddSkill(rr, c.obj)
      [] c.op = "RemoveSkill" -> RunRemoveSkill(rr, c.skill)
      [] c.op = "AddSlot" -> RunAddSlot(rr, c.obj)
      [] c.op = "RemoveSlot" -> RunRemoveSlot(rr, c.slot)
      [] c.op = "Grant" -> RunGrant(rr, c.skill, c.slot)
      [] c.op = "Revoke" -> RunRevoke(rr, c.skill, c.slot)

----------------------------------------------------------------------------
(* Queries *)

\* Less comparing the names before the snaps
SkillLessNameFirst(p, q) ==
    IF SkillObj[p].Name # SkillObj[q].Name
    THEN StrLess(SkillObj[p].Name, SkillObj[q].Name)
    ELSE StrLess(SkillObj[p].Snap, SkillObj[q].Snap)

\* bySkillSnapAndName.Less and bySlotSnapAndName.Less
SkillLess(p, q) ==
    IF SkillObj[p].Snap # SkillObj[q].Snap
    THEN StrLess(SkillObj[p].Snap, SkillObj[q].Snap)
    ELSE StrLess(SkillObj[p].Name, SkillObj[q].Name)

SlotLess(p, q) ==
    IF SlotObj[p].Snap # SlotObj[q].Snap
    THEN StrLess(SlotObj[p].Snap, SlotObj[q].Snap)
    ELSE StrLess(SlotObj[p].Name, SlotObj[q].Name)

\* sort.Sort over the elements of S
RECURSIVE SortSkills(_)
SortSkills(S) ==
    IF S = {} THEN <<>>
    ELSE LET lo == CHOOSE x \in S : \A y \in S : ~SkillLess(y, x)
         IN  <<lo>> \o SortSkills(S \ {lo})

RECURSIVE SortSlots(_)
SortSlots(S) ==
    IF S = {} THEN <<>>
    ELSE LET lo == CHOOSE x \in S : \A y \in S : ~SlotLess(y, x)
         IN  <<lo>> \o SortSlots(S \ {lo})

\* the slots and skills stored for one snap
SlotsOf(rr, snapName) == {rr.slots[k] : k \in {kk \in Keys : kk[1] = snapName}} \ {0}
SkillsOf(rr, snapName) == {rr.skills[k] : k \in {kk \in Keys : kk[1] = snapName}} \ {0}

\* GrantedTo making an entry for every slot of the snap
GrantedToEverySlot(rr, snapName) ==
    [slot \in SlotsOf(rr, snapName) |-> SortSkills(UsedBy(rr, slot))]

\* GrantedTo: result[slot] exists only once a skill was appended to it
GrantedTo(rr, snapName) ==
    [slot \in {s \in SlotsOf(rr, snapName) : UsedBy(rr, s) # {}} |->
        SortSkills(UsedBy(rr, slot))]

GrantedBy(rr, snapName) ==
    [skill \in {s \in SkillsOf(rr, snapName) : Using(rr, s) # {}} |->
        SortSlots(Using(rr, skill))]

\* Type, Skill and Slot: the map entry, nil when there is none
Type(rr, typeName) == rr.types[typeName]
Skill(rr, k) == rr.skills[k]
Slot(rr, k) == rr.slots[k]

\* AllSkills and AllSlots: every stored entry that passes the type filter
AllSkills(rr, skillType) ==
    SortSkills({s \in {rr.skills[k] : k \in Keys} \ {0} :
                   skillType = "" \/ SkillObj[s].Type = skillType})

AllSlots(rr, skillType) ==
    SortSlots({s \in {rr.slots[k] : k \in Keys} \ {0} :
                  skillType = "" \/ SlotObj[s].Type = skillType})

\* Skills and Slots: the entries of one snap
Skills(rr, snapName) == SortSkills(SkillsOf(rr, snapName))
Slots(rr, snapName) == SortSlots(SlotsOf(rr, snapName))

----------------------------------------------------------------------------
(* Initial state: NewRepository(), nobody calling. *)

NoTrip == [stage |-> "none", base |-> NewRepository]
NoDuel == [g |-> 0, rm |-> 0]
NoOut == [q |-> "none", arg |-> NoKey, val |-> 0]

Init ==
    /\ r = NewRepository
    /\ m = FALSE
    /\ pc = [t \in Callers |-> "idle"]
    /\ call = [t \in Callers |-> NoCall]
    /\ loc = [t \in Callers |-> [skill |-> 0, slot |-> 0]]
    /\ ret = [t \in Callers |-> OK]
    /\ atLock = NewRepository
    /\ race = NoCall
    /\ duel = NoDuel
    /\ last = [call |-> NoCall, err |-> OK]
    /\ prev = NewRepository
    /\ added = {}
    /\ readd = FALSE
    /\ trip = NoTrip
    /\ out = NoOut
    /\ scen = <<>>

----------------------------------------------------------------------------
(* Calls made one after another: each action is one whole call, the maps  *)
(* changed under the lock and the lock released before the next call.      *)

\* the history of the call c that found the maps r and returned e
Record(c, e) ==
    /\ last' = [call |-> c, err |-> e]
    /\ prev' = r
    /\ added' = IF c.op = "AddSkill" /\ e = OK THEN added \cup {SkillKey(c.obj)} ELSE added
    /\ readd' = (c.op = "AddSkill" /\ SkillKey(c.obj) \in added)
    /\ trip' = IF c.op = "Grant" /\ e = OK
               THEN [stage |-> "granted", base |-> r]
               ELSE IF /\ c.op = "Revoke"
                       /\ trip.stage = "granted"
                       /\ c.skill = last.call.skill
                       /\ c.slot = last.call.slot
               THEN [stage |-> "revoked", base |-> trip.base]
               ELSE NoTrip
    /\ out' = out
    /\ scen' = scen

AddType(t) ==
    LET res == RunAddType(r, t) IN
    /\ r' = res.r
    /\ Record(Call("AddType", t, NoKey, NoKey), res.err)
    /\ UNCHANGED concVars

AddSkill(s) ==
    LET res == RunAddSkill(r, s) IN
    /\ r' = res.r
    /\ Record(Call("AddSkill", s, NoKey, NoKey), res.err)
    /\ UNCHANGED concVars

RemoveSkill(k) ==
    LET res == RunRemoveSkill(r, k) IN
    /\ r' = res.r
    /\ Record(Call("RemoveSkill", 0, k, NoKey), res.err)
    /\ UNCHANGED concVars

AddSlot(s) ==
    LET res == RunAddSlot(r, s) IN
    /\ r' = res.r
    /\ Record(Call("AddSlot", s, NoKey, NoKey), res.err)
    /\ UNCHANGED concVars

RemoveSlot(k) ==
    LET res == RunRemoveSlot(r, k) IN
    /\ r' = res.r
    /\ Record(Call("RemoveSlot", 0, NoKey, k), res.err)
    /\ UNCHANGED concVars

Grant(k, l) ==
    LET res == RunGrant(r, k, l) IN
    /\ r' = res.r
    /\ Record(Call("Grant", 0, k, l), res.err)
    /\ UNCHANGED concVars

Revoke(k, l) ==
    LET res == RunRevoke(r, k, l) IN
    /\ r' = res.r
    /\ Record(Call("Revoke", 0, k, l), res.err)
    /\ UNCHANGED concVars

Next ==
    \/ \E t \in TypeIds : AddType(t)
    \/ \E s \in SkillIds : AddSkill(s)
    \/ \E k \in SkillArgs : RemoveSkill(k)
    \/ \E s \in SlotIds : AddSlot(s)
    \/ \E k \in SlotRemoveArgs : RemoveSlot(k)
    \/ \E k \in SkillArgs, l \in SlotArgs : Grant(k, l)
    \/ \E k \in SkillArgs, l \in SlotArgs : Revoke(k, l)

Spec == Init /\ [][Next]_vars

----------------------------------------------------------------------------
(* Calls and queries made one after another.  A query takes the lock,     *)
(* reads the maps, releases the lock and hands its value to the caller;    *)
(* the caller takes the value before it makes its next call.               *)

TypeFilters == {"", "t1", "t2"}
LookupKeys == SkillArgs \cup {<<BadName, "x">>, <<"a", "x">>}

Answer(q, arg, val) == [q |-> q, arg |-> arg, val |-> val]

\* one run of the methods on a new Repository: a type, a skill of one snap
\* and a slot of another, the grant, what the slot's snap is granted, the
\* grant again, the removal of the skill, the revocation, the removal again
Scenario ==
    <<Call("AddType", 1, NoKey, NoKey),
      Call("AddSkill", 1, NoKey, NoKey),
      Call("AddSlot", 2, NoKey, NoKey),
      Call("Grant", 0, <<"a", "y">>, <<"b", "x">>),
      [q |-> "GrantedTo", arg |-> "b"],
      Call("Grant", 0, <<"a", "y">>, <<"b", "x">>),
      Call("RemoveSkill", 0, <<"a", "y">>, NoKey),
      Call("Revoke", 0, <<"a", "y">>, <<"b", "x">>),
      Call("RemoveSkill", 0, <<"a", "y">>, NoKey)>>

Off == <<"off">>

\* the history after the call or query step returned res
Follow(step, res) ==
    IF scen # Off /\ Len(scen) < Len(Scenario) /\ step = Scenario[Len(scen) + 1]
    THEN Append(scen, res)
    ELSE Off

\* any of the calls that change the maps
Mutate(c) ==
    /\ out = NoOut
    /\ r' = Run(r, c).r
    /\ scen' = Follow(c, Run(r, c).err)
    /\ UNCHANGED <<concVars, last, prev, added, readd, trip, out>>

QueryType(typeName) ==
    /\ out = NoOut
    /\ out' = Answer("Type", typeName, Type(r, typeName))
    /\ scen' = Follow([q |-> "Type", arg |-> typeName], Type(r, typeName))
    /\ UNCHANGED <<r, concVars, last, prev, added, readd, trip>>

QuerySkill(k) ==
    /\ out = NoOut
    /\ out' = Answer("Skill", k, Skill(r, k))
    /\ scen' = Follow([q |-> "Skill", arg |-> k], Skill(r, k))
    /\ UNCHANGED <<r, concVars, last, prev, added, readd, trip>>

QuerySlot(k) ==
    /\ out = NoOut
    /\ out' = Answer("Slot", k, Slot(r, k))
    /\ scen' = Follow([q |-> "Slot", arg |-> k], Slot(r, k))
    /\ UNCHANGED <<r, concVars, last, prev, added, readd, trip>>

QueryAllSkills(skillType) ==
    /\ out = NoOut
    /\ out' = Answer("AllSkills", skillType, AllSkills(r, skillType))
    /\ scen' = Follow([q |-> "AllSkills", arg |-> skillType], AllSkills(r, skillType))
    /\ UNCHANGED <<r, concVars, last, prev, added, readd, trip>>

QuerySkills(snapName) ==
    /\ out = NoOut
    /\ out' = Answer("Skills", snapName, Skills(r, snapName))
    /\ scen' = Follow([q |-> "Skills", arg |-> snapName], Skills(r, snapName))
    /\ UNCHANGED <<r, concVars, last, prev, added, readd, trip>>

QueryAllSlots(skillType) ==
    /\ out = NoOut
    /\ out' = Answer("AllSlots", skillType, AllSlots(r, skillType))
    /\ scen' = Follow([q |-> "AllSlots", arg |-> skillType], AllSlots(r, skillType))
    /\ UNCHANGED <<r, concVars, last, prev, added, readd, trip>>

QuerySlots(snapName) ==
    /\ out = NoOut
    /\ out' = Answer("Slots", snapName, Slots(r, snapName))
    /\ scen' = Follow([q |-> "Slots", arg |-> snapName], Slots(r, snapName))
    /\ UNCHANGED <<r, concVars, last, prev, added, readd, trip>>

QueryGrantedTo(snapName) ==
    /\ out = NoOut
    /\ out' = Answer("GrantedTo", snapName, GrantedTo(r, snapName))
    /\ scen' = Follow([q |-> "GrantedTo", arg |-> snapName], GrantedTo(r, snapName))
    /\ UNCHANGED <<r, concVars, last, prev, added, readd, trip>>

QueryGrantedBy(snapName) ==
    /\ out = NoOut
    /\ out' = Answer("GrantedBy", snapName, GrantedBy(r, snapName))
    /\ scen' = Follow([q |-> "GrantedBy", arg |-> snapName], GrantedBy(r, snapName))
    /\ UNCHANGED <<r, concVars, last, prev, added, readd, trip>>

\* the caller has the value of its query and goes on
Return ==
    /\ out # NoOut
    /\ out' = NoOut
    /\ UNCHANGED <<r, concVars, last, prev, added, readd, trip, scen>>

NextQuery ==
    \/ \E c \in Calls : Mutate(c)
    \/ \E n \in TypeNames : QueryType(n)
    \/ \E k \in LookupKeys : QuerySkill(k)
    \/ \E k \in LookupKeys : QuerySlot(k)
    \/ \E f \in TypeFilters : QueryAllSkills(f)
    \/ \E n \in SnapNames : QuerySkills(n)
    \/ \E f \in TypeFilters : QueryAllSlots(f)
    \/ \E n \in SnapNames : QuerySlots(n)
    \/ \E n \in SnapNames : QueryGrantedTo(n)
    \/ \E n \in SnapNames : QueryGrantedBy(n)
    \/ Return

SpecQuery == Init /\ [][NextQuery]_vars

----------------------------------------------------------------------------
(* Concurrent callers.  Every method starts with r.m.Lock() and           *)
(* defer r.m.Unlock(); between the two it runs its checks, returns at the  *)
(* first that fails, and otherwise writes.  A caller's pc:                 *)
(*   idle/done -> lock -> check -> (write -> (write2 ->)) unlock -> done   *)

ConcCalls ==
    {Call("AddType", 1, NoKey, NoKey),
     Call("AddSkill", 1, NoKey, NoKey),
     Call("AddSlot", 1, NoKey, NoKey),
     Call("RemoveSkill", 0, <<"a", "y">>, NoKey),
     Call("RemoveSlot", 0, NoKey, <<"a", "y">>),
     Call("Grant", 0, <<"a", "y">>, <<"a", "y">>),
     Call("Revoke", 0, <<"a", "y">>, <<"a", "y">>)}

TwoWrites == {"Grant", "Revoke"}

\* the checks of the method c calls: the error of the first failing one
Err(rr, c) ==
    CASE c.op = "AddType" -> AddTypeErr(rr, c.obj)
      [] c.op = "AddSkill" -> AddSkillErr(rr, c.obj)
      [] c.op = "RemoveSkill" -> RemoveSkillErr(rr, c.skill)
      [] c.op = "AddSlot" -> AddSlotErr(rr, c.obj)
      [] c.op = "RemoveSlot" -> RemoveSlotErr(rr, c.slot)
      [] c.op = "Grant" -> GrantErr(rr, c.skill, c.slot)
      [] c.op = "Revoke" -> RevokeErr(rr, c.skill, c.slot)

\* the first write of the method, with the pointers l its lookups found
Put(rr, c, l) ==
    CASE c.op = "AddType" -> AddTypePut(rr, c.obj)
      [] c.op = "AddSkill" -> AddSkillPut(rr, c.obj)
      [] c.op = "RemoveSkill" -> RemoveSkillPut(rr, c.skill)
      [] c.op = "AddSlot" -> AddSlotPut(rr, c.obj)
      [] c.op = "RemoveSlot" -> RemoveSlotPut(rr, c.slot)
      [] c.op = "Grant" -> GrantPutForward(rr, l.skill, l.slot)
      [] c.op = "Revoke" -> RevokeDelForward(rr, l.skill, l.slot)

\* the second write of Grant and Revoke
Put2(rr, c, l) ==
    CASE c.op = "Grant" -> GrantPutBackward(rr, l.skill, l.slot)
      [] c.op = "Revoke" -> RevokeDelBackward(rr, l.skill, l.slot)

\* the Grant call every caller waits for the lock with, its skill and slot
\* stored, of one type and not connected; NoCall when there is none
GrantRace(rr, pcs, calls) ==
    LET G == {c \in ConcCalls :
                /\ c.op = "Grant"
                /\ \A t \in Callers : pcs[t] = "lock" /\ calls[t] = c
                /\ GrantErr(rr, c.skill, c.slot) = OK}
    IN  IF G = {} THEN NoCall ELSE CHOOSE c \in G : TRUE

\* the caller g of a Grant and the caller rm of RemoveSkill of its skill or
\* RemoveSlot of its slot, both waiting for the lock and no other caller in
\* a call, the skill and slot stored, of one type and not connected; NoDuel
\* when there are none
Duel(rr, pcs, calls) ==
    LET D == {d \in [g : Callers, rm : Callers] :
                /\ d.g # d.rm
                /\ \A t \in Callers :
                      IF t \in {d.g, d.rm} THEN pcs[t] = "lock" ELSE pcs[t] \in {"idle", "done"}
                /\ calls[d.g].op = "Grant"
                /\ GrantErr(rr, calls[d.g].skill, calls[d.g].slot) = OK
                /\ \/ calls[d.rm].op = "RemoveSkill" /\ calls[d.rm].skill = calls[d.g].skill
                   \/ calls[d.rm].op = "RemoveSlot" /\ calls[d.rm].slot = calls[d.g].slot}
    IN  IF D = {} THEN NoDuel ELSE CHOOSE d \in D : TRUE

\* a caller calls a method
Invoke(t, c) ==
    /\ pc[t] \in {"idle", "done"}
    /\ pc' = [pc EXCEPT ![t] = "lock"]
    /\ call' = [call EXCEPT ![t] = c]
    /\ ret' = [ret EXCEPT ![t] = OK]
    /\ race' = GrantRace(r, pc', call')
    /\ duel' = Duel(r, pc', call')
    /\ UNCHANGED <<r, m, loc, atLock, seqVars>>

\* Lock that does not wait for the mutex to be free
LockNoWait(t) ==
    /\ pc[t] = "lock"
    /\ m' = TRUE
    /\ pc' = [pc EXCEPT ![t] = "check"]
    /\ atLock' = r
    /\ UNCHANGED <<r, call, loc, ret, race, duel, seqVars>>

\* r.m.Lock()
Lock(t) ==
    /\ pc[t] = "lock"
    /\ m = FALSE
    /\ m' = TRUE
    /\ pc' = [pc EXCEPT ![t] = "check"]
    /\ atLock' = r
    /\ UNCHANGED <<r, call, loc, ret, race, duel, seqVars>>

\* the lookups and checks, up to the first return
Check(t) ==
    /\ pc[t] = "check"
    /\ loc' = [loc EXCEPT ![t] = IF call[t].op \in TwoWrites
                                  THEN [skill |-> r.skills[call[t].skill],
                                        slot |-> r.slots[call[t].slot]]
                                  ELSE @]
    /\ IF Err(r, call[t]) # OK
       THEN /\ ret' = [ret EXCEPT ![t] = Err(r, call[t])]
            /\ pc' = [pc EXCEPT ![t] = "unlock"]
       ELSE /\ ret' = ret
            /\ pc' = [pc EXCEPT ![t] = "write"]
    /\ UNCHANGED <<r, m, call, atLock, race, duel, seqVars>>

\* the write (the first of two in Grant and Revoke), then return nil
Write(t) ==
    /\ pc[t] = "write"
    /\ r' = Put(r, call[t], loc[t])
    /\ pc' = [pc EXCEPT ![t] = IF call[t].op \in TwoWrites THEN "write2" ELSE "unlock"]
    /\ UNCHANGED <<m, call, loc, ret, atLock, race, duel, seqVars>>

\* the second write of Grant and Revoke, then return nil
Write2(t) ==
    /\ pc[t] = "write2"
    /\ r' = Put2(r, call[t], loc[t])
    /\ pc' = [pc EXCEPT ![t] = "unlock"]
    /\ UNCHANGED <<m, call, loc, ret, atLock, race, duel, seqVars>>

\* Unlock that is not deferred: a return with an error skips it
UnlockOnSuccess(t) ==
    /\ pc[t] = "unlock"
    /\ m' = IF ret[t] = OK THEN FALSE ELSE m
    /\ pc' = [pc EXCEPT ![t] = "done"]
    /\ call' = [call EXCEPT ![t] = NoCall]
    /\ loc' = [loc EXCEPT ![t] = [skill |-> 0, slot |-> 0]]
    /\ atLock' = NewRepository
    /\ UNCHANGED <<r, ret, race, duel, seqVars>>

\* the deferred r.m.Unlock(), and the return to the caller
Unlock(t) ==
    /\ pc[t] = "unlock"
    /\ m' = FALSE
    /\ pc' = [pc EXCEPT ![t] = "done"]
    /\ call' = [call EXCEPT ![t] = NoCall]
    /\ loc' = [loc EXCEPT ![t] = [skill |-> 0, slot |-> 0]]
    /\ atLock' = NewRepository
    /\ UNCHANGED <<r, ret, race, duel, seqVars>>

NextConc ==
    \E t \in Callers :
        \/ \E c \in ConcCalls : Invoke(t, c)
        \/ Lock(t)
        \/ Check(t)
        \/ Write(t)
        \/ Write2(t)
        \/ Unlock(t)

SpecConc == Init /\ [][NextConc]_vars

\* The scheduler runs every goroutine that can take a step, and sync.Mutex
\* hands the lock to a goroutine that keeps waiting for it (its starvation
\* mode): Lock is enabled only while the mutex is free, so it is the one
\* step that needs strong fairness.  Nothing makes a caller call.
Fairness ==
    \A t \in Callers :
        /\ SF_vars(Lock(t))
        /\ WF_vars(Check(t))
        /\ WF_vars(Write(t))
        /\ WF_vars(Write2(t))
        /\ WF_vars(Unlock(t))

SpecConcFair == Init /\ [][NextConc]_vars /\ Fairness

----------------------------------------------------------------------------
(* The grant relation as each map of the dual index holds it: pairs       *)
(* <<skill, slot>> of pointers.                                            *)

Forward(rr) ==
    UNION {{<<p, c>> : p \in rr.skillUsedBySlot[c]} : c \in DOMAIN rr.skillUsedBySlot}

Backward(rr) ==
    UNION {{<<p, c>> : c \in rr.slotsUsingSkill[p]} : p \in DOMAIN rr.slotsUsingSkill}

Edges(rr) == Forward(rr) \cup Backward(rr)

\* the skill or slot pointer is stored under its own (Snap, Name)
SkillStored(rr, p) == rr.skills[SkillKey(p)] = p
SlotStored(rr, c) == rr.slots[SlotKey(c)] = c

----------------------------------------------------------------------------
(* Concurrent callers: what they see. *)

InCS(t) == pc[t] \in {"check", "write", "write2", "unlock"}

\* the maps as callers may take them to be: a Grant or Revoke between its two
\* writes has not happened yet
Visible == IF \E t \in Callers : pc[t] = "write2" THEN atLock ELSE r

\* a caller is between its call and the point where the call takes effect
Pending(p) == p \in {"lock", "check", "write", "write2"}

\* C1: whenever the mutex is free, a skill is in skillUsedBySlot[slot] exactly
\* when the slot is in slotsUsingSkill[skill], whatever calls ran and whether
\* they failed.
C1_DualIndex == m = FALSE => Forward(r) = Backward(r)

\* the edge is in place, the lock is free, and a call has failed
C1_Witness ==
    /\ m = FALSE
    /\ Forward(r) # {}
    /\ \E t \in Callers : pc[t] = "done" /\ ret[t] # OK

\* C4: when every caller calls Grant for one pair at once, the pair stored, of
\* one type and not connected, and all the calls have returned, exactly one
\* returned nil, the others returned AlreadyGranted, and the edge is in both
\* maps.
C4_OneGrantWins ==
    (race # NoCall /\ \A t \in Callers : pc[t] = "done") =>
        LET p == r.skills[race.skill]
            c == r.slots[race.slot]
        IN  /\ Cardinality({t \in Callers : ret[t] = OK}) = 1
            /\ \A t \in Callers : ret[t] \in {OK, "AlreadyGranted"}
            /\ <<p, c>> \in Forward(r)
            /\ <<p, c>> \in Backward(r)

C4_Witness == race # NoCall /\ \A t \in Callers : pc[t] = "done"

\* C6: at most one caller is between Lock and Unlock, the mutex is locked
\* exactly while one is, so every read and write of the maps happens under it
\* and it is free once the calls have returned, failed or not.
C6_LockDiscipline ==
    /\ Cardinality({t \in Callers : InCS(t)}) <= 1
    /\ m = (\E t \in Callers : InCS(t))
    /\ (\A t \in Callers : pc[t] \in {"idle", "done"}) => m = FALSE

\* every call has returned, one of them with an error
C6_Witness ==
    /\ \A t \in Callers : pc[t] = "done"
    /\ \E t \in Callers : ret[t] # OK
    /\ m = FALSE

\* C7: every step of the concurrent callers is a step of an atomic registry:
\* a call is made, or a pending call stays pending and the registry as callers
\* see it does not change, or one pending call takes effect, changing the
\* registry and fixing its result as the whole method run on its own would,
\* or a call that took effect returns that result.  Each call so takes effect
\* once, between its invocation and its return.
C7_Step(t) ==
    \/ /\ pc[t] \in {"idle", "done"}
       /\ pc'[t] = "lock"
       /\ Visible' = Visible
    \/ /\ Pending(pc[t])
       /\ Pending(pc'[t])
       /\ call'[t] = call[t]
       /\ Visible' = Visible
    \/ /\ Pending(pc[t])
       /\ pc'[t] = "unlock"
       /\ call'[t] = call[t]
       /\ Visible' = Run(Visible, call[t]).r
       /\ ret'[t] = Run(Visible, call[t]).err
    \/ /\ pc[t] = "unlock"
       /\ pc'[t] = "done"
       /\ ret'[t] = ret[t]
       /\ Visible' = Visible

C7_Linearizable ==
    [][\E t \in Callers :
          /\ C7_Step(t)
          /\ \A u \in Callers \ {t} :
                pc'[u] = pc[u] /\ call'[u] = call[u] /\ ret'[u] = ret[u]]_vars

\* two calls overlapped and the second to take effect changed the registry
C7_Witness ==
    \E t, u \in Callers :
        /\ t # u
        /\ pc[t] = "unlock"
        /\ ret[t] = OK
        /\ call[t].op = "Revoke"
        /\ pc[u] = "lock"

----------------------------------------------------------------------------
\* C2: every grant edge in either map of the dual index joins a skill that is
\* stored under its (snap, name) and a slot that is stored under its
\* (snap, name); a RemoveSkill or RemoveSlot of an endpoint that has an edge
\* fails with InUse.
C2_ReferentialIntegrity ==
    /\ \A e \in Edges(r) : SkillStored(r, e[1]) /\ SlotStored(r, e[2])
    /\ (/\ last.call.op = "RemoveSkill"
        /\ prev.skills[last.call.skill] # 0
        /\ \E e \in Edges(prev) : e[1] = prev.skills[last.call.skill])
       => last.err = "InUse"
    /\ (/\ last.call.op = "RemoveSlot"
        /\ prev.slots[last.call.slot] # 0
        /\ \E e \in Edges(prev) : e[2] = prev.slots[last.call.slot])
       => last.err = "InUse"

C2_Witness ==
    /\ last.call.op = "RemoveSlot"
    /\ last.err = "InUse"
    /\ Cardinality(Edges(r)) >= 2

\* C3: RemoveSkill of a stored skill fails with InUse and changes nothing while
\* a grant touches the skill; when no grant touches it (every one was revoked)
\* the call succeeds and the key holds no skill afterwards.
C3_RemoveGuarded ==
    (last.call.op = "RemoveSkill" /\ prev.skills[last.call.skill] # 0) =>
        LET p == prev.skills[last.call.skill] IN
        IF \E e \in Edges(prev) : e[1] = p
        THEN last.err = "InUse" /\ r = prev
        ELSE last.err = OK /\ r.skills[last.call.skill] = 0

\* a skill that was granted and revoked is removed
C3_Witness ==
    /\ last.call.op = "RemoveSkill"
    /\ last.err = OK
    /\ prev.skills[last.call.skill] \in DOMAIN prev.slotsUsingSkill

\* C5: a call that returns an error leaves types, skills, slots and both maps
\* of the grant index exactly as it found them.
C5_AllOrNothing == last.err # OK => r = prev

C5_Witness ==
    /\ last.call.op = "AddSkill"
    /\ last.err = "NameConflict"
    /\ prev.skills[SkillKey(last.call.obj)] # last.call.obj

\* C8 as stated: once AddSkill has stored a skill under a key, every later
\* AddSkill with that key fails with NameConflict, whatever ran in between.
C8_Original == readd => last.err = "NameConflict"

\* C8 amended: while a skill is stored under the key, AddSkill with that key
\* fails and changes nothing; the error is NameConflict when the new skill's
\* type is registered and accepts it, and the earlier check's error otherwise.
C8_WhileStored ==
    (last.call.op = "AddSkill" /\ prev.skills[SkillKey(last.call.obj)] # 0) =>
        LET t == prev.types[SkillObj[last.call.obj].Type] IN
        /\ last.err # OK
        /\ r = prev
        /\ (t # 0 /\ Sanitize(t, last.call.obj) = OK) => last.err = "NameConflict"

C8_Witness == readd /\ last.err = "NameConflict" /\ prev.skills[SkillKey(last.call.obj)] # 0

\* C9: a successful Grant followed at once by Revoke of the same pair: the
\* Revoke succeeds, GrantedTo of the slot's snap and GrantedBy of the skill's
\* snap return what they returned before the Grant, and neither map holds an
\* edge between the two.
C9_RoundTrip ==
    trip.stage = "revoked" =>
        LET p == trip.base.skills[last.call.skill]
            c == trip.base.slots[last.call.slot]
        IN  /\ last.err = OK
            /\ GrantedTo(r, last.call.slot[1]) = GrantedTo(trip.base, last.call.slot[1])
            /\ GrantedBy(r, last.call.skill[1]) = GrantedBy(trip.base, last.call.skill[1])
            /\ Forward(r) = Forward(trip.base)
            /\ Backward(r) = Backward(trip.base)
            /\ <<p, c>> \notin Edges(r)

\* the round trip ran while the slot held another grant
C9_Witness ==
    /\ trip.stage = "revoked"
    /\ GrantedTo(r, last.call.slot[1]) # <<>>
    /\ GrantedBy(r, last.call.skill[1]) # <<>>

\* C10: Grant returns NotFound when the skill or the slot is not stored, else
\* TypeMismatch when their types differ, else AlreadyGranted when the pair is
\* connected, else succeeds; a failed Grant leaves both maps as they were and
\* a successful one leaves the edge in both.
C10_GrantOutcome ==
    last.call.op = "Grant" =>
        LET p == prev.skills[last.call.skill]
            c == prev.slots[last.call.slot]
            want == IF p = 0 \/ c = 0 THEN "NotFound"
                    ELSE IF SkillObj[p].Type # SlotObj[c].Type THEN "TypeMismatch"
                    ELSE IF <<p, c>> \in Edges(prev) THEN "AlreadyGranted"
                    ELSE OK
        IN  /\ last.err = want
            /\ last.err # OK =>
                  /\ r.skillUsedBySlot = prev.skillUsedBySlot
                  /\ r.slotsUsingSkill = prev.slotsUsingSkill
            /\ last.err = OK => <<p, c>> \in Forward(r) /\ <<p, c>> \in Backward(r)

C10_Witness ==
    /\ last.call.op = "Grant"
    /\ last.err = "TypeMismatch"
    /\ Edges(r) # {}

----------------------------------------------------------------------------
(* The types of the stored entries and of the grants. *)

\* C11: every grant connects a skill and a slot of the same type.
C11_SameType ==
    \A e \in Edges(r) : SkillObj[e[1]].Type = SlotObj[e[2]].Type

\* a skill with a grant, and a stored slot of another type
C11_Witness ==
    \E e \in Edges(r) : \E c \in SlotIds :
        /\ SlotStored(r, c)
        /\ SlotObj[c].Type # SkillObj[e[1]].Type
        /\ SlotObj[c].Type # SlotObj[e[2]].Type

\* C12: no call removes or replaces a registered type, and the type of
\* every stored skill and of every stored slot is registered.
C12_TypesGrow ==
    /\ \A n \in TypeNames : prev.types[n] # 0 => r.types[n] = prev.types[n]
    /\ \A k \in Keys :
          /\ r.skills[k] # 0 => r.types[SkillObj[r.skills[k]].Type] # 0
          /\ r.slots[k] # 0 => r.types[SlotObj[r.slots[k]].Type] # 0

\* another type object was offered under a registered name that entries use
C12_Witness ==
    /\ last.call.op = "AddType"
    /\ last.err = "NameConflict"
    /\ r.types[TypeObj[last.call.obj].Name] # last.call.obj
    /\ \E p \in SkillIds : SkillStored(r, p) /\ SkillObj[p].Type = TypeObj[last.call.obj].Name
    /\ \E c \in SlotIds : SlotStored(r, c) /\ SlotObj[c].Type = TypeObj[last.call.obj].Name

----------------------------------------------------------------------------
(* What AddSkill and AddSlot check, and in which order. *)

\* C13: AddSkill checks, in this order, the snap name, the skill name, that
\* the type is registered, that the type accepts the skill and that the key
\* is free, and returns the error of the first check that fails; the type is
\* asked only after the first three checks passed, and the skill is stored
\* only when all five pass.
C13_AddSkillOrder ==
    last.call.op = "AddSkill" =>
        LET s == last.call.obj
            skill == SkillObj[s]
            t == prev.types[skill.Type]
            want == IF skill.Snap \notin ValidNames THEN "InvalidOwner"
                    ELSE IF skill.Name \notin ValidNames THEN "InvalidName"
                    ELSE IF t = 0 THEN "UnknownType"
                    ELSE IF Sanitize(t, s) # OK THEN "TypeRejected"
                    ELSE IF prev.skills[<<skill.Snap, skill.Name>>] # 0 THEN "NameConflict"
                    ELSE OK
        IN  /\ last.err = want
            /\ AddSkillSanitizes(prev, s) =>
                  /\ skill.Snap \in ValidNames
                  /\ skill.Name \in ValidNames
                  /\ t # 0
            /\ want # OK => r = prev
            /\ want = OK => r = [prev EXCEPT !.skills[<<skill.Snap, skill.Name>>] = s]

\* the type rejected a skill whose key was taken as well
C13_Witness ==
    /\ last.call.op = "AddSkill"
    /\ last.err = "TypeRejected"
    /\ prev.skills[SkillKey(last.call.obj)] # 0

\* C14: AddSlot makes the checks of AddSkill in the same order, so it refuses
\* a slot whose snap name is not valid and stores nothing then.  (Stated
\* without the type's check of the value: Sanitize takes a skill.)
C14_SameChecks ==
    last.call.op = "AddSlot" =>
        LET s == last.call.obj
            slot == SlotObj[s]
            t == prev.types[slot.Type]
            want == IF slot.Snap \notin ValidNames THEN "InvalidOwner"
                    ELSE IF slot.Name \notin ValidNames THEN "InvalidName"
                    ELSE IF t = 0 THEN "UnknownType"
                    ELSE IF prev.slots[<<slot.Snap, slot.Name>>] # 0 THEN "NameConflict"
                    ELSE OK
        IN  /\ last.err = want
            /\ want # OK => r = prev

\* C15: AddSlot fails only with InvalidName, UnknownType or NameConflict,
\* checked in that order; with a valid slot name, a registered type and a
\* free key it succeeds and Slot returns the slot afterwards.
C15_AddSlotOutcome ==
    last.call.op = "AddSlot" =>
        LET s == last.call.obj
            slot == SlotObj[s]
            t == prev.types[slot.Type]
            want == IF slot.Name \notin ValidNames THEN "InvalidName"
                    ELSE IF t = 0 THEN "UnknownType"
                    ELSE IF prev.slots[<<slot.Snap, slot.Name>>] # 0 THEN "NameConflict"
                    ELSE OK
        IN  /\ last.err = want
            /\ want = OK => Slot(r, <<slot.Snap, slot.Name>>) = s

\* a slot whose snap name is not valid went in
C15_Witness ==
    /\ last.call.op = "AddSlot"
    /\ last.err = OK
    /\ SlotObj[last.call.obj].Snap \notin ValidNames
    /\ Slot(r, SlotKey(last.call.obj)) = last.call.obj

----------------------------------------------------------------------------
(* Revoke. *)

\* C16: Revoke returns NotFound when the skill or the slot is not stored,
\* else NotGranted when the pair is not connected, else it succeeds and
\* takes the pair out of both maps; every other grant, and every skill,
\* slot and type, stays as it was.
C16_RevokeOutcome ==
    last.call.op = "Revoke" =>
        LET p == prev.skills[last.call.skill]
            c == prev.slots[last.call.slot]
            want == IF p = 0 \/ c = 0 THEN "NotFound"
                    ELSE IF <<p, c>> \notin Edges(prev) THEN "NotGranted"
                    ELSE OK
        IN  /\ last.err = want
            /\ want # OK => r = prev
            /\ want = OK =>
                  /\ Forward(r) = Forward(prev) \ {<<p, c>>}
                  /\ Backward(r) = Backward(prev) \ {<<p, c>>}
                  /\ r.types = prev.types
                  /\ r.skills = prev.skills
                  /\ r.slots = prev.slots

\* a grant was revoked while its slot and its skill each kept another one
C16_Witness ==
    /\ last.call.op = "Revoke"
    /\ last.err = OK
    /\ UsedBy(r, prev.slots[last.call.slot]) # {}
    /\ Using(r, prev.skills[last.call.skill]) # {}

----------------------------------------------------------------------------
(* Adding and looking up. *)

\* C17: AddType returns InvalidName for a name that is not valid, else
\* NameConflict when the name is registered, and the registered type stays;
\* else it stores the type, and Type of the name returns it.  Type returns
\* nil for a name until an AddType of that name succeeded.
C17_AddTypeOutcome ==
    /\ last.call.op = "AddType" =>
          LET t == last.call.obj
              n == TypeObj[t].Name
              want == IF n \notin ValidNames THEN "InvalidName"
                      ELSE IF prev.types[n] # 0 THEN "NameConflict"
                      ELSE OK
          IN  /\ last.err = want
              /\ want # OK => r = prev /\ Type(r, n) = Type(prev, n)
              /\ want = OK => Type(r, n) = t
    /\ last.call = NoCall => \A n \in TypeNames : Type(r, n) = 0
    /\ \A n \in TypeNames :
          Type(r, n) # Type(prev, n) =>
              /\ last.call.op = "AddType"
              /\ last.err = OK
              /\ TypeObj[last.call.obj].Name = n

\* another type object came under a registered name; a third name is free
C17_Witness ==
    /\ last.call.op = "AddType"
    /\ last.err = "NameConflict"
    /\ Type(r, TypeObj[last.call.obj].Name) \notin {0, last.call.obj}
    /\ \E n \in ValidNames \cap TypeNames : Type(r, n) = 0

\* C18: AddSkill of a skill that passes the checks succeeds, and Skill of
\* its snap and name returns it right after; Skill returns nil for a key no
\* AddSkill stored, and for the key of a skill RemoveSkill removed.
C18_AddSkillLookup ==
    /\ last.call.op = "AddSkill" =>
          LET s == last.call.obj
              skill == SkillObj[s]
              t == prev.types[skill.Type]
              passes == /\ skill.Snap \in ValidNames
                        /\ skill.Name \in ValidNames
                        /\ t # 0
                        /\ Sanitize(t, s) = OK
                        /\ prev.skills[<<skill.Snap, skill.Name>>] = 0
          IN  passes => last.err = OK /\ Skill(r, <<skill.Snap, skill.Name>>) = s
    /\ \A k \in Keys : k \notin added => Skill(r, k) = 0
    /\ last.call.op = "RemoveSkill" /\ last.err = OK => Skill(r, last.call.skill) = 0
    /\ \A k \in Keys :
          Skill(r, k) # Skill(prev, k) /\ Skill(r, k) # 0 =>
              /\ last.call.op = "AddSkill"
              /\ last.err = OK
              /\ SkillKey(last.call.obj) = k

\* a skill was removed and another skill went in under its key
C18_Witness ==
    /\ readd
    /\ last.err = OK
    /\ Skill(r, SkillKey(last.call.obj)) = last.call.obj
    /\ \E k \in Keys : k \in added /\ Skill(r, k) = 0

----------------------------------------------------------------------------
(* What the queries return. *)

C20_Original ==
    out.q = "GrantedTo" =>
        /\ DOMAIN out.val = {c \in SlotIds : SlotStored(r, c) /\ SlotObj[c].Snap = out.arg}
        /\ \A c \in DOMAIN out.val :
              {out.val[c][i] : i \in 1..Len(out.val[c])} = {p \in SkillIds : <<p, c>> \in Forward(r)}

\* C20: GrantedTo of a snap has a key for every stored slot of that snap
\* that has a grant, with exactly the skills granted to it, and no key for a
\* slot without grants or for a slot of another snap.
C20_KeysWithGrants ==
    out.q = "GrantedTo" =>
        /\ DOMAIN out.val = {c \in SlotIds : /\ SlotStored(r, c)
                                             /\ SlotObj[c].Snap = out.arg
                                             /\ \E p \in SkillIds : <<p, c>> \in Forward(r)}
        /\ \A c \in DOMAIN out.val :
              /\ out.val[c] # <<>>
              /\ {out.val[c][i] : i \in 1..Len(out.val[c])} = {p \in SkillIds : <<p, c>> \in Forward(r)}

\* GrantedTo returned a key while a slot of another snap had a grant too and
\* a third slot had none
C20_Witness ==
    /\ out.q = "GrantedTo"
    /\ DOMAIN out.val # {}
    /\ \E c \in SlotIds : SlotStored(r, c) /\ UsedBy(r, c) # {} /\ SlotObj[c].Snap # out.arg
    /\ \E c \in SlotIds : SlotStored(r, c) /\ UsedBy(r, c) = {}

----------------------------------------------------------------------------
(* One run from a new Repository. *)

\* C21: on a new Repository, AddType, AddSkill, AddSlot and Grant of the
\* skill to the slot succeed; GrantedTo of the slot's snap then returns the
\* slot with the list of that one skill; the same Grant again fails with
\* AlreadyGranted; RemoveSkill fails with InUse; Revoke of the pair and the
\* RemoveSkill after it succeed.
C21_Scenario ==
    scen # Off =>
        \A i \in 1..Len(scen) :
            scen[i] = <<OK, OK, OK, OK, [c \in {2} |-> <<1>>],
                        "AlreadyGranted", "InUse", OK, OK>>[i]

\* the run was made to its end
C21_Witness ==
    /\ scen # Off
    /\ Len(scen) = Len(Scenario)
    /\ r.skills[<<"a", "y">>] = 0

----------------------------------------------------------------------------
(* Concurrent callers: every call returns. *)

\* C22: under fair scheduling every call a caller has made returns, with nil
\* or with an error, whatever the other callers call; so no state is reached
\* in which a caller is in a call and no step can be taken.
C22_Returns ==
    \A t \in Callers : (pc[t] \notin {"idle", "done"}) ~> (pc[t] = "done")

\* one caller is about to return an error with the mutex locked and every
\* other caller waits for the mutex
C22_Witness ==
    \E t \in Callers :
        /\ pc[t] = "unlock"
        /\ ret[t] # OK
        /\ m = TRUE
        /\ \A u \in Callers \ {t} : pc[u] = "lock"

----------------------------------------------------------------------------
(* Skills and slots are named apart. *)

\* C23: AddSkill returns what it would return with no slot stored, and
\* NameConflict only when a skill holds the key; AddSlot returns what it
\* would return with no skill stored, and NameConflict only when a slot
\* holds the key; so a skill and a slot can be stored under one snap and
\* name, while each key holds at most one skill and one slot, its own.
C23_SeparateNames ==
    /\ last.call.op = "AddSkill" =>
          /\ last.err = AddSkillErr([prev EXCEPT !.slots = NewRepository.slots], last.call.obj)
          /\ last.err = "NameConflict" => prev.skills[SkillKey(last.call.obj)] # 0
    /\ last.call.op = "AddSlot" =>
          /\ last.err = AddSlotErr([prev EXCEPT !.skills = NewRepository.skills], last.call.obj)
          /\ last.err = "NameConflict" => prev.slots[SlotKey(last.call.obj)] # 0
    /\ \A k \in Keys :
          /\ r.skills[k] # 0 => SkillKey(r.skills[k]) = k
          /\ r.slots[k] # 0 => SlotKey(r.slots[k]) = k
    /\ \A p, q \in SkillIds :
          SkillStored(r, p) /\ SkillStored(r, q) /\ SkillKey(p) = SkillKey(q) => p = q
    /\ \A c, d \in SlotIds :
          SlotStored(r, c) /\ SlotStored(r, d) /\ SlotKey(c) = SlotKey(d) => c = d

\* a slot went in under the snap and name of a stored skill
C23_Witness ==
    /\ last.call.op = "AddSlot"
    /\ last.err = OK
    /\ r.skills[SlotKey(last.call.obj)] # 0
    /\ r.slots[SlotKey(last.call.obj)] = last.call.obj

----------------------------------------------------------------------------
(* What a removed skill leaves behind. *)

\* C24: after a successful RemoveSkill, also of a skill that was granted and
\* revoked before, no skill is stored under the key, slotsUsingSkill has no
\* entry for the removed skill, no entry of skillUsedBySlot holds it, and
\* every other skill, every slot, type and grant is as it was.
C24_NoTrace ==
    last.call.op = "RemoveSkill" /\ last.err = OK =>
        LET k == last.call.skill
            p == prev.skills[k]
        IN  /\ r.skills[k] = 0
            /\ p \notin DOMAIN r.slotsUsingSkill
            /\ \A c \in DOMAIN r.skillUsedBySlot : p \notin r.skillUsedBySlot[c]
            /\ \A kk \in Keys \ {k} : r.skills[kk] = prev.skills[kk]
            /\ r.slots = prev.slots
            /\ r.types = prev.types
            /\ Edges(r) = Edges(prev)

----------------------------------------------------------------------------
(* Concurrent callers: a removal against a Grant. *)

\* C25: when RemoveSkill of a skill, or RemoveSlot of a slot, and Grant of
\* that skill to that slot are called at once, both stored, of one type and
\* not connected, then once both have returned either Grant returned nil and
\* the removal InUse, or the removal returned nil and Grant NotFound: never
\* both nil, never both an error.
C25_OneWins ==
    (duel # NoDuel /\ pc[duel.g] = "done" /\ pc[duel.rm] = "done") =>
        \/ ret[duel.g] = OK /\ ret[duel.rm] = "InUse"
        \/ ret[duel.rm] = OK /\ ret[duel.g] = "NotFound"

\* the removal took the lock first and the Grant found nothing
C25_Witness ==
    /\ duel # NoDuel
    /\ pc[duel.g] = "done"
    /\ pc[duel.rm] = "done"
    /\ ret[duel.rm] = OK
    /\ ret[duel.g] = "NotFound"

----------------------------------------------------------------------------
(* A skill added again after its removal. *)

\* C26: right after a successful RemoveSkill, AddSkill of any skill with the
\* same snap and name whose type is registered and accepts it succeeds; and
\* a skill added under a key that was stored and removed before has no
\* grant: GrantedBy of its snap has no slot for it, and Grant of it to any
\* stored slot of its type succeeds.
C26_FreshAfterRemove ==
    /\ last.call.op = "RemoveSkill" /\ last.err = OK =>
          \A s \in SkillIds :
              (/\ SkillKey(s) = last.call.skill
               /\ r.types[SkillObj[s].Type] # 0
               /\ Sanitize(r.types[SkillObj[s].Type], s) = OK)
              => Run(r, Call("AddSkill", s, NoKey, NoKey)).err = OK
    /\ readd /\ last.err = OK =>
          LET p == last.call.obj IN
          /\ Skill(r, SkillKey(p)) = p
          /\ Using(r, p) = {}
          /\ p \notin DOMAIN GrantedBy(r, SkillObj[p].Snap)
          /\ \A l \in SlotArgs :
                r.slots[l] # 0 /\ SlotObj[r.slots[l]].Type = SkillObj[p].Type
                => Run(r, Call("Grant", 0, SkillKey(p), l)).err = OK

\* the skill that went in again was granted to a stored slot, revoked and
\* removed before
C26_Witness ==
    /\ readd
    /\ last.err = OK
    /\ last.call.obj \in DOMAIN r.slotsUsingSkill
    /\ \E c \in DOMAIN r.skillUsedBySlot :
          SlotStored(r, c) /\ SlotObj[c].Type = SkillObj[last.call.obj].Type

====
